---- MODULE Spec2Model ----
(***************************************************************************)
(* Guestbook server (src/server.js): three HTTP endpoints over one sqlite  *)
(* table `posts` and one upload directory.  Every asynchronous hop of the  *)
(* code (middleware, handler, statement with its callback, fs.unlink) is   *)
(* one action, so that requests interleave where the event loop lets them. *)
(* A statement and its callback are one step: the callback touches only    *)
(* its own request and the response.                                       *)
(*                                                                         *)
(* Strings are sequences of one-character strings.  An optional value      *)
(* (undefined / null in the code) is a sequence of length 0 or 1.          *)
(***************************************************************************)
EXTENDS Integers, Sequences, FiniteSets

(***************************************************************************)
(* Bounds of the model.                                                    *)
(***************************************************************************)
\* number of requests that can be in flight at once
MaxReqs == 2
\* number of rows ever inserted (ids 1..MaxPosts)
MaxPosts == 2
\* the clock Date.now() runs over 0..MaxTime
MaxTime == 1
\* leading / trailing whitespace put around a submitted field
MaxPad == 1
\* length of the original filenames enumerated character by character
MaxName == 3

(***************************************************************************)
(* Optional values.                                                        *)
(***************************************************************************)
None == <<>>
Some(x) == <<x>>
IsSome(o) == Len(o) = 1
Get(o) == o[1]

(***************************************************************************)
(* Strings.                                                                *)
(***************************************************************************)
\* characters String.prototype.trim removes (the ones the model submits)
WS == {" ", "\t"}

Rep(c, n) == [i \in 1..n |-> c]

MinOf(S) == CHOOSE x \in S : \A y \in S : x <= y
MaxOf(S) == CHOOSE x \in S : \A y \in S : x >= y

\* the first index at or after i, and the last at or before i, whose character
\* is not whitespace (Len(s) + 1, and 0, when there is none)
RECURSIVE FirstKept(_, _)
FirstKept(s, i) == IF i > Len(s) \/ s[i] \notin WS THEN i ELSE FirstKept(s, i + 1)
RECURSIVE LastKept(_, _)
LastKept(s, i) == IF i < 1 \/ s[i] \notin WS THEN i ELSE LastKept(s, i - 1)

\* s.trim()
Trim(s) == SubSeq(s, FirstKept(s, 1), LastKept(s, Len(s)))

\* !s for a possibly-undefined string: undefined and "" are falsy
Falsy(o) == ~IsSome(o) \/ Len(Get(o)) = 0

(***************************************************************************)
(* Paths (node's posix `path`).                                            *)
(***************************************************************************)
Lower == {"a","b","c","d","e","f","g","h","i","j","k","l","m",
          "n","o","p","q","r","s","t","u","v","w","x","y","z"}
Upper == {"A","B","C","D","E","F","G","H","I","J","K","L","M",
          "N","O","P","Q","R","S","T","U","V","W","X","Y","Z"}
Digit == {"0","1","2","3","4","5","6","7","8","9"}
\* the two ends of the Hangul syllable range U+AC00..U+D7A3, as tokens
Hangul == {"U+AC00", "U+D7A3"}
\* the character class [a-zA-Z0-9가-힣_-]
Allowed == Lower \cup Upper \cup Digit \cup Hangul \cup {"_", "-"}

\* s with the characters outside `keep` removed: s.replace(/[^keep]/g, "")
RECURSIVE Strip(_, _)
Strip(s, keep) ==
  IF s = <<>> THEN <<>>
  ELSE IF Head(s) \in keep THEN <<Head(s)>> \o Strip(Tail(s), keep)
       ELSE Strip(Tail(s), keep)

\* the last component of p, trailing separators ignored
LastComponent(p) ==
  LET body == {i \in 1..Len(p) : p[i] # "/"}
  IN IF body = {} THEN <<>>
     ELSE LET end == MaxOf(body)
              seps == {i \in 1..end : p[i] = "/"}
              start == IF seps = {} THEN 1 ELSE MaxOf(seps) + 1
          IN SubSeq(p, start, end)

\* variant: the extension taken from the last "." of the whole path
ExtnameOfWholePath(p) ==
  LET dots == {i \in 1..Len(p) : p[i] = "."}
  IN IF dots = {} \/ MaxOf(dots) = 1 THEN <<>>
     ELSE SubSeq(p, MaxOf(dots), Len(p))

\* path.extname(p)
Extname(p) ==
  LET c == LastComponent(p)
      dots == {i \in 1..Len(c) : c[i] = "."}
  IN IF dots = {} \/ c = <<".", ".">> THEN <<>>
     ELSE IF MaxOf(dots) = 1 THEN <<>>
     ELSE SubSeq(c, MaxOf(dots), Len(c))

\* path.basename(p, ext)
Basename(p, ext) ==
  LET c == LastComponent(p)
      n == Len(c) - Len(ext)
  IN IF ext # <<>> /\ ext = p THEN <<>>
     ELSE IF ext # <<>> /\ n > 0 /\ SubSeq(c, n + 1, Len(c)) = ext
          THEN SubSeq(c, 1, n)
     ELSE c

\* `${n}` for a non-negative integer
RECURSIVE Decimal(_)
Decimal(n) ==
  LET d == <<"0","1","2","3","4","5","6","7","8","9">>[(n % 10) + 1]
  IN IF n < 10 THEN <<d>> ELSE Decimal(n \div 10) \o <<d>>

ImgName == <<"i", "m", "g">>

\* the multer filename callback: `${Date.now()}_${safeBase || "img"}${ext}`
StoredFilename(time, originalname) ==
  LET ext == Extname(originalname)
      base == Basename(originalname, ext)
      safeBase == Strip(base, Allowed)
  IN Decimal(time) \o <<"_">> \o (IF safeBase = <<>> THEN ImgName ELSE safeBase) \o ext

\* p.split("/")
RECURSIVE Split(_)
Split(p) ==
  LET seps == {i \in 1..Len(p) : p[i] = "/"}
  IN IF seps = {} THEN <<p>>
     ELSE <<SubSeq(p, 1, MinOf(seps) - 1)>> \o Split(SubSeq(p, MinOf(seps) + 1, Len(p)))

Dot == <<".">>
DotDot == <<".", ".">>

\* normalisation of a relative path given as segments: "" and "." dropped,
\* ".." removes the segment before it (and is kept when there is none)
RECURSIVE Normalize(_, _)
Normalize(done, todo) ==
  IF todo = <<>> THEN done
  ELSE LET h == Head(todo) t == Tail(todo)
       IN IF h = <<>> \/ h = Dot THEN Normalize(done, t)
          ELSE IF h = DotDot /\ done # <<>> /\ done[Len(done)] # DotDot
               THEN Normalize(SubSeq(done, 1, Len(done) - 1), t)
          ELSE Normalize(Append(done, h), t)

\* path.join(__dirname, dir..., rel), as segments below __dirname
PathJoin(dir, rel) == Normalize(<<>>, dir \o Split(rel))

Public == <<"p", "u", "b", "l", "i", "c">>
Uploads == <<"u", "p", "l", "o", "a", "d", "s">>
\* uploadDir = path.join(__dirname, "public", "uploads")
uploadDir == <<Public, Uploads>>

\* s.replace(/^\/+/, "")
StripLeadingSlashes(s) ==
  LET body == {i \in 1..Len(s) : s[i] # "/"}
  IN IF body = {} THEN <<>> ELSE SubSeq(s, MinOf(body), Len(s))

\* req.file ? `/uploads/${req.file.filename}` : null
ImagePathOf(filename) ==
  IF IsSome(filename) THEN Some(<<"/">> \o Uploads \o <<"/">> \o Get(filename)) ELSE None

\* path.join(__dirname, "public", imagePath.replace(/^\/+/, ""))
FullPath(imagePath) == PathJoin(<<Public>>, StripLeadingSlashes(imagePath))

(***************************************************************************)
(* State.                                                                  *)
(***************************************************************************)
VARIABLES
  posts,      \* the rows of table posts
  seq,        \* the AUTOINCREMENT counter of the table (largest id ever given)
  files,      \* the files on disk, as paths below __dirname
  now,        \* Date.now()
  reqs,       \* the requests in flight, one record per slot
  resp,       \* the response sent last
  log,        \* the fs.unlink completed last: its outcome ("ok", "ENOENT", "EIO")
              \* and the id of the delete that started it
  acked,      \* history: the ids the 201 responses have carried
  okDeletes,  \* history: per id, the number of deletes answered 200
  table,      \* CREATE TABLE IF NOT EXISTS posts at startup: "pending",
              \* "created", or "failed" (the error is logged)
  listening   \* whether app.listen has been called

vars == <<posts, seq, files, now, reqs, resp, log, acked, okDeletes, table, listening>>

Slots == 1..MaxReqs
Ids == 1..MaxPosts

\* program constant: the largest message.length a create accepts
MaxMessageLen == 300

Idle ==
  [kind |-> "none", pc |-> "idle",
   name |-> None, message |-> None,   \* req.body.name, req.body.message
   file |-> None,                     \* file.originalname of the uploaded part
   filename |-> None,                 \* req.file.filename
   id |-> 0,                          \* req.params.id
   createdAt |-> 0, imagePath |-> None,
   status |-> 0,                      \* status of the response already sent, 0 before it
   before |-> {},                     \* history: the table when the request began
   seen |-> {}]                       \* history: acked when the request began

NoResp ==
  [kind |-> "none", status |-> 0,
   error |-> "",                      \* which error body: "missing", "too long",
                                      \* "not found", "db", or "" for none
   post |-> None,                     \* body of a 201
   rows |-> <<>>,                     \* body of a list
   table |-> {},                      \* history: the table when the SELECT of a list ran
   gone |-> {},                       \* history: the ids deleted by then
   req |-> Idle]                      \* history: the request that was answered

IdsOf(rows) == {p.id : p \in rows}
Range(f) == {f[i] : i \in DOMAIN f}
\* ids that were given to a row that is no longer there
Removed == (1..seq) \ IdsOf(posts)

Row(id, name, message, image_path, created_at) ==
  [id |-> id, name |-> name, message |-> message,
   image_path |-> image_path, created_at |-> created_at]

Init ==
  /\ posts = {}
  /\ seq = 0
  /\ files = {}
  /\ now = 0
  /\ reqs = [r \in Slots |-> Idle]
  /\ resp = NoResp
  /\ log = [err |-> "none", id |-> 0]
  /\ acked = {}
  /\ okDeletes = [i \in Ids |-> 0]
  /\ table = "created"
  /\ listening = TRUE

\* the state when server.js is loaded: the table not yet created, the port
\* not yet open
InitBoot ==
  /\ posts = {}
  /\ seq = 0
  /\ files = {}
  /\ now = 0
  /\ reqs = [r \in Slots |-> Idle]
  /\ resp = NoResp
  /\ log = [err |-> "none", id |-> 0]
  /\ acked = {}
  /\ okDeletes = [i \in Ids |-> 0]
  /\ table = "pending"
  /\ listening = FALSE

\* db.run(CREATE TABLE IF NOT EXISTS posts ...) runs and its callback acts: on
\* an error it logs and does nothing else
CreateTable ==
  /\ table = "pending"
  /\ table' \in {"created", "failed"}
  /\ UNCHANGED <<posts, seq, files, now, reqs, resp, log, acked, okDeletes, listening>>

\* app.listen(PORT, ...)
Listen ==
  /\ ~listening
  /\ listening' = TRUE
  /\ UNCHANGED <<posts, seq, files, now, reqs, resp, log, acked, okDeletes, table>>

\* a request arrives in the lowest free slot (the slots are interchangeable)
Free(r) == reqs[r].pc = "idle" /\ \A s \in 1..(r - 1) : reqs[s].pc # "idle"

\* the response to request q
Response(q, status, error) ==
  [NoResp EXCEPT !.kind = q.kind, !.status = status, !.error = error, !.req = q]

\* Date.now() advances
Tick ==
  /\ now < MaxTime
  /\ now' = now + 1
  /\ UNCHANGED <<posts, seq, files, reqs, resp, log, acked, okDeletes, table, listening>>

(***************************************************************************)
(* GET /api/posts                                                          *)
(***************************************************************************)
\* variant: ORDER BY created_at ASC
OrderedByCreatedAtAsc(rs) ==
  \A i, j \in 1..Len(rs) : i < j => rs[i].created_at <= rs[j].created_at

\* rs is in the order of ORDER BY created_at DESC
OrderedByCreatedAtDesc(rs) ==
  \A i, j \in 1..Len(rs) : i < j => rs[i].created_at >= rs[j].created_at

\* the results SELECT ... FROM posts ORDER BY created_at DESC may produce on
\* table t: each row once, in order; the order among equal created_at is open
SelectAll(t) ==
  {rs \in [1..Cardinality(t) -> t] :
     /\ \A i, j \in 1..Cardinality(t) : i # j => rs[i] # rs[j]
     /\ OrderedByCreatedAtDesc(rs)}

\* the handler: db.all(...) is queued
ListRequest(r) ==
  /\ Free(r)
  /\ listening
  /\ reqs' = [reqs EXCEPT ![r] = [Idle EXCEPT !.kind = "list", !.pc = "all_q",
                                              !.before = posts, !.seen = acked]]
  /\ UNCHANGED <<posts, seq, files, now, resp, log, acked, okDeletes, table, listening>>

\* the SELECT runs, behind the CREATE TABLE queued at startup, and its callback
\* answers: 500 (always, when there is no table), or 200 with the rows
ListQuery(r) ==
  /\ reqs[r].kind = "list" /\ reqs[r].pc = "all_q"
  /\ table # "pending"
  /\ \/ resp' = Response(reqs[r], 500, "db")
     \/ \E rs \in SelectAll(posts) :
          /\ table = "created"
          /\ resp' = [Response(reqs[r], 200, "") EXCEPT !.rows = rs, !.table = posts,
                                                     !.gone = Removed]
  /\ reqs' = [reqs EXCEPT ![r] = Idle]
  /\ UNCHANGED <<posts, seq, files, now, log, acked, okDeletes, table, listening>>

(***************************************************************************)
(* POST /api/posts                                                         *)
(***************************************************************************)
\* variant: !name || !message, the trimmed fields not looked at
MissingFieldsUntrimmed(name, message) == Falsy(name) \/ Falsy(message)

\* !name || !message || !name.trim() || !message.trim()
MissingFields(name, message) ==
  \/ Falsy(name)
  \/ Falsy(message)
  \/ Trim(Get(name)) = <<>>
  \/ Trim(Get(message)) = <<>>

\* variant: the limit off by one
MessageTooLongOffByOne(message) == Len(message) > MaxMessageLen + 1

\* message.length > 300
MessageTooLong(message) == Len(message) > MaxMessageLen

\* variant: the fields bound as submitted
InsertedRowUntrimmed(id, name, message, imagePath, createdAt) ==
  Row(id, name, message, imagePath, createdAt)

\* the parameters bound to the INSERT: [name.trim(), message.trim(), imagePath, createdAt]
InsertedRow(id, name, message, imagePath, createdAt) ==
  Row(id, Trim(name), Trim(message), imagePath, createdAt)

\* the body of the 201
CreatedBody(lastID, name, message, imagePath, createdAt) ==
  Row(lastID, Trim(name), Trim(message), imagePath, createdAt)

\* creates that may still insert a row
PendingCreates == {s \in Slots : reqs[s].kind = "create"}

\* upload.single("image"): the multipart body is parsed and the file part, if
\* any, is written under uploadDir with the name the filename callback gives
CreateUpload(r, inputs) ==
  /\ Free(r)
  /\ listening
  /\ seq + Cardinality(PendingCreates) < MaxPosts
  /\ \E in \in inputs :
       LET filename == IF IsSome(in.file) THEN Some(StoredFilename(now, Get(in.file)))
                       ELSE None
       IN /\ reqs' = [reqs EXCEPT ![r] =
                        [Idle EXCEPT !.kind = "create", !.pc = "handler",
                                     !.name = in.name, !.message = in.message,
                                     !.file = in.file, !.filename = filename,
                                     !.before = posts, !.seen = acked]]
          /\ files' = IF IsSome(filename)
                      THEN files \cup {PathJoin(uploadDir, Get(filename))}
                      ELSE files
  /\ UNCHANGED <<posts, seq, now, resp, log, acked, okDeletes, table, listening>>

\* variant: the 201 is sent as soon as the INSERT is queued
CreateHandlerAnswersFirst(r) ==
  /\ reqs[r].kind = "create" /\ reqs[r].pc = "handler"
  /\ LET q == reqs[r]
     IN IF MissingFieldsUntrimmed(q.name, q.message) \/ Trim(Get(q.name)) = <<>>
           \/ Trim(Get(q.message)) = <<>>
        THEN /\ resp' = Response(q, 400, "missing")
             /\ reqs' = [reqs EXCEPT ![r] = Idle]
             /\ acked' = acked
        ELSE IF MessageTooLongOffByOne(<<"x">> \o Get(q.message))
        THEN /\ resp' = Response(q, 400, "too long")
             /\ reqs' = [reqs EXCEPT ![r] = Idle]
             /\ acked' = acked
        ELSE /\ reqs' = [reqs EXCEPT ![r].pc = "ins_q",
                                     ![r].createdAt = now,
                                     ![r].imagePath = ImagePathOf(q.filename)]
             /\ resp' = [Response(q, 201, "") EXCEPT
                           !.post = Some(Row(seq + 1, Trim(Get(q.name)), Trim(Get(q.message)),
                                             ImagePathOf(q.filename), now))]
             /\ acked' = acked \cup {seq + 1}
  /\ UNCHANGED <<posts, seq, files, now, log, okDeletes, table, listening>>

\* the handler: 400 for an invalid body, else createdAt and imagePath are
\* computed and db.run(INSERT ...) is queued
CreateHandler(r) ==
  /\ reqs[r].kind = "create" /\ reqs[r].pc = "handler"
  /\ LET q == reqs[r]
     IN IF MissingFields(q.name, q.message)
        THEN /\ resp' = Response(q, 400, "missing")
             /\ reqs' = [reqs EXCEPT ![r] = Idle]
        ELSE IF MessageTooLong(Get(q.message))
        THEN /\ resp' = Response(q, 400, "too long")
             /\ reqs' = [reqs EXCEPT ![r] = Idle]
        ELSE /\ reqs' = [reqs EXCEPT ![r].pc = "ins_q",
                                     ![r].createdAt = now,
                                     ![r].imagePath = ImagePathOf(q.filename)]
             /\ resp' = resp
  /\ UNCHANGED <<posts, seq, files, now, log, acked, okDeletes, table, listening>>

\* variant: id INTEGER PRIMARY KEY without AUTOINCREMENT, the new id being one
\* more than the largest id in the table
CreateInsertMaxRowid(r) ==
  /\ reqs[r].kind = "create" /\ reqs[r].pc = "ins_q"
  /\ table # "pending"
  /\ LET q == reqs[r]
         lastID == MaxOf(IdsOf(posts) \cup {0}) + 1
     IN \/ /\ resp' = Response(q, 500, "db")
           /\ UNCHANGED <<posts, seq, acked>>
        \/ /\ table = "created"
           /\ posts' = posts \cup
                 {InsertedRow(lastID, Get(q.name), Get(q.message), q.imagePath, q.createdAt)}
           /\ seq' = seq + 1
           /\ resp' = [Response(q, 201, "") EXCEPT
                         !.post = Some(CreatedBody(lastID, Get(q.name), Get(q.message),
                                                   q.imagePath, q.createdAt))]
           /\ acked' = acked \cup {lastID}
  /\ reqs' = [reqs EXCEPT ![r] = Idle]
  /\ UNCHANGED <<files, now, log, okDeletes, table, listening>>

\* the INSERT runs and its callback answers: the statement fails, changes
\* nothing and 500 is sent, or it adds one row under the next AUTOINCREMENT id
\* and 201 is sent with the row, its id being this.lastID
CreateInsert(r) ==
  /\ reqs[r].kind = "create" /\ reqs[r].pc = "ins_q"
  /\ table # "pending"
  /\ LET q == reqs[r]
         lastID == seq + 1
     IN \/ /\ resp' = Response(q, 500, "db")
           /\ UNCHANGED <<posts, seq, acked>>
        \/ /\ table = "created"
           /\ posts' = posts \cup
                 {InsertedRow(lastID, Get(q.name), Get(q.message), q.imagePath, q.createdAt)}
           /\ seq' = lastID
           /\ resp' = [Response(q, 201, "") EXCEPT
                         !.post = Some(CreatedBody(lastID, Get(q.name), Get(q.message),
                                                   q.imagePath, q.createdAt))]
           /\ acked' = acked \cup {lastID}
  /\ reqs' = [reqs EXCEPT ![r] = Idle]
  /\ UNCHANGED <<files, now, log, okDeletes, table, listening>>

(***************************************************************************)
(* DELETE /api/posts/:id                                                   *)
(***************************************************************************)
\* the handler: db.get(SELECT image_path ...) is queued
DeleteRequest(r) ==
  /\ Free(r)
  /\ listening
  /\ \E id \in Ids :
       reqs' = [reqs EXCEPT ![r] =
                  [Idle EXCEPT !.kind = "delete", !.pc = "get_q", !.id = id,
                               !.before = posts, !.seen = acked]]
  /\ UNCHANGED <<posts, seq, files, now, resp, log, acked, okDeletes, table, listening>>

\* variant: the row is not looked at
NotFoundNever(rowsFound) == FALSE

\* if (!row): whether db.get produced no row
NotFound(rowsFound) == rowsFound = {}

\* variant: the request for an id that is not there is dropped unanswered
DeleteLookupDropsNotFound(r) ==
  /\ reqs[r].kind = "delete" /\ reqs[r].pc = "get_q"
  /\ table # "pending"
  /\ LET q == reqs[r]
         rowsFound == {p \in posts : p.id = q.id}
     IN \/ /\ resp' = Response(q, 500, "db")
           /\ reqs' = [reqs EXCEPT ![r] = Idle]
        \/ /\ table = "created"
           /\ rowsFound = {}
           /\ resp' = resp
           /\ reqs' = [reqs EXCEPT ![r] = Idle]
        \/ /\ table = "created"
           /\ rowsFound # {}
           /\ reqs' = [reqs EXCEPT ![r].pc = "del_q",
                         ![r].imagePath = (CHOOSE p \in rowsFound : TRUE).image_path]
           /\ resp' = resp
  /\ UNCHANGED <<posts, seq, files, now, log, acked, okDeletes, table, listening>>

\* the SELECT runs and its callback acts: 500 when it fails, 404 when there is
\* no row, else imagePath is taken from the row and db.run(DELETE ...) is queued
DeleteLookup(r) ==
  /\ reqs[r].kind = "delete" /\ reqs[r].pc = "get_q"
  /\ table # "pending"
  /\ LET q == reqs[r]
         rowsFound == {p \in posts : p.id = q.id}
     IN \/ /\ resp' = Response(q, 500, "db")
           /\ reqs' = [reqs EXCEPT ![r] = Idle]
        \/ /\ table = "created"
           /\ NotFound(rowsFound)
           /\ resp' = Response(q, 404, "not found")
           /\ reqs' = [reqs EXCEPT ![r] = Idle]
        \/ /\ table = "created"
           /\ ~NotFound(rowsFound)
           /\ reqs' = [reqs EXCEPT ![r].pc = "del_q",
                         ![r].imagePath = IF rowsFound = {} THEN None
                                          ELSE (CHOOSE p \in rowsFound : TRUE).image_path]
           /\ resp' = resp
  /\ UNCHANGED <<posts, seq, files, now, log, acked, okDeletes, table, listening>>

\* if (imagePath): null and "" are falsy
HasImage(imagePath) == IsSome(imagePath) /\ Get(imagePath) # <<>>

\* variant: DELETE FROM posts without the WHERE clause
DeleteRunNoWhere(r) ==
  /\ reqs[r].kind = "delete" /\ reqs[r].pc = "del_q"
  /\ table # "pending"
  /\ LET q == reqs[r]
     IN \/ /\ resp' = Response(q, 500, "db")
           /\ reqs' = [reqs EXCEPT ![r] = Idle]
           /\ UNCHANGED <<posts, okDeletes>>
        \/ /\ table = "created"
           /\ posts' = {}
           /\ resp' = Response(q, 200, "")
           /\ okDeletes' = [okDeletes EXCEPT ![q.id] = @ + 1]
           /\ reqs' = [reqs EXCEPT ![r] = IF HasImage(q.imagePath)
                                          THEN [q EXCEPT !.pc = "unlink_q", !.status = 200]
                                          ELSE Idle]
  /\ UNCHANGED <<seq, files, now, log, acked, table, listening>>

\* variant: fs.unlink is started whether or not the DELETE succeeded
DeleteRunUnlinksAnyway(r) ==
  /\ reqs[r].kind = "delete" /\ reqs[r].pc = "del_q"
  /\ table # "pending"
  /\ LET q == reqs[r]
     IN \/ /\ resp' = Response(q, 500, "db")
           /\ reqs' = [reqs EXCEPT ![r] = IF HasImage(q.imagePath)
                                          THEN [q EXCEPT !.pc = "unlink_q", !.status = 500]
                                          ELSE Idle]
           /\ UNCHANGED <<posts, okDeletes>>
        \/ /\ table = "created"
           /\ posts' = {p \in posts : p.id # q.id}
           /\ resp' = Response(q, 200, "")
           /\ okDeletes' = [okDeletes EXCEPT ![q.id] = @ + 1]
           /\ reqs' = [reqs EXCEPT ![r] = IF HasImage(q.imagePath)
                                          THEN [q EXCEPT !.pc = "unlink_q", !.status = 200]
                                          ELSE Idle]
  /\ UNCHANGED <<seq, files, now, log, acked, table, listening>>

\* the DELETE runs and its callback acts: the statement fails, changes nothing
\* and 500 is sent; or it removes the rows with this id (none, when the row is
\* already gone: the statement succeeds all the same), fs.unlink is started
\* when the row had an image_path, and 200 {success: true} is sent
DeleteRun(r) ==
  /\ reqs[r].kind = "delete" /\ reqs[r].pc = "del_q"
  /\ table # "pending"
  /\ LET q == reqs[r]
     IN \/ /\ resp' = Response(q, 500, "db")
           /\ reqs' = [reqs EXCEPT ![r] = Idle]
           /\ UNCHANGED <<posts, okDeletes>>
        \/ /\ table = "created"
           /\ posts' = {p \in posts : p.id # q.id}
           /\ resp' = Response(q, 200, "")
           /\ okDeletes' = [okDeletes EXCEPT ![q.id] = @ + 1]
           /\ reqs' = [reqs EXCEPT ![r] = IF HasImage(q.imagePath)
                                          THEN [q EXCEPT !.pc = "unlink_q", !.status = 200]
                                          ELSE Idle]
  /\ UNCHANGED <<seq, files, now, log, acked, table, listening>>

\* variant: a failed removal is answered with 500
DeleteUnlinkAnswers(r) ==
  /\ reqs[r].kind = "delete" /\ reqs[r].pc = "unlink_q"
  /\ LET fullPath == FullPath(Get(reqs[r].imagePath))
     IN \/ /\ fullPath \in files
           /\ files' = files \ {fullPath}
           /\ log' = [err |-> "ok", id |-> reqs[r].id]
           /\ resp' = resp
        \/ /\ fullPath \notin files
           /\ files' = files
           /\ log' = [err |-> "ENOENT", id |-> reqs[r].id]
           /\ resp' = Response(reqs[r], 500, "db")
        \/ /\ fullPath \in files
           /\ files' = files
           /\ log' = [err |-> "EIO", id |-> reqs[r].id]
           /\ resp' = Response(reqs[r], 500, "db")
  /\ reqs' = [reqs EXCEPT ![r] = Idle]
  /\ UNCHANGED <<posts, seq, now, acked, okDeletes, table, listening>>

\* fs.unlink(fullPath) runs and its callback logs: the file is removed, or is
\* not there (ENOENT), or the removal fails with another error and the file
\* stays.  No response is sent here: it went out when fs.unlink was started
DeleteUnlink(r) ==
  /\ reqs[r].kind = "delete" /\ reqs[r].pc = "unlink_q"
  /\ LET fullPath == FullPath(Get(reqs[r].imagePath))
     IN \/ /\ fullPath \in files
           /\ files' = files \ {fullPath}
           /\ log' = [err |-> "ok", id |-> reqs[r].id]
        \/ /\ fullPath \notin files
           /\ files' = files
           /\ log' = [err |-> "ENOENT", id |-> reqs[r].id]
        \/ /\ fullPath \in files
           /\ files' = files
           /\ log' = [err |-> "EIO", id |-> reqs[r].id]
  /\ reqs' = [reqs EXCEPT ![r] = Idle]
  /\ UNCHANGED <<posts, seq, now, resp, acked, okDeletes, table, listening>>

(***************************************************************************)
(* What clients submit.                                                    *)
(***************************************************************************)
Pads == {Rep(" ", k) : k \in 0..MaxPad} \cup {<<"\t">>}
Padded(core) == {l \o core \o t : l \in Pads, t \in Pads}

AFile == <<"a", ".", "p">>
Input(name, message, file) == [name |-> name, message |-> message, file |-> file]

\* the requests of the concurrent and the sequential specification
SomeInputs ==
  {Input(Some(<<" ", "n">>), Some(<<"m", " ">>), f) : f \in {None, Some(AFile)}}
  \cup {Input(Some(<<"\t">>), Some(<<"m">>), Some(AFile))}

\* the requests of the create specification: every way a field can be
\* absent, blank, padded, or at the length limit
NameInputs == {None} \cup {Some(s) : s \in Padded(<<>>) \cup Padded(<<"n">>)}
MessageInputs ==
  {None} \cup {Some(s) : s \in Padded(<<>>) \cup Padded(<<"m">>)}
         \cup UNION {{Some(s) : s \in Padded(Rep("m", n))} :
                       n \in (MaxMessageLen - 1)..(MaxMessageLen + 1)}
AllInputs ==
  {Input(n, Some(<<"m">>), None) : n \in NameInputs}
  \cup {Input(Some(<<"n">>), m, None) : m \in MessageInputs}
  \cup {Input(None, None, None), Input(Some(<<" ">>), Some(<<" ">>), Some(AFile)),
        Input(Some(<<" ", "n">>), Some(<<"m", " ">>), Some(AFile))}

\* original filenames: every string of up to MaxName characters over a
\* letter, the dot, the separator and a character outside the allowlist, and
\* one that climbs out of two directories
NameChars == {"a", ".", "/", "!"}
Traversal == <<".", ".", "/", ".", ".", "/", "e", ".", "p">>
OrigNames == UNION {[1..n -> NameChars] : n \in 1..MaxName} \cup {Traversal}

\* valid bodies carrying a file under each original filename
FileInputs == {Input(Some(<<"n">>), Some(<<"m">>), Some(f)) : f \in OrigNames}

(***************************************************************************)
(* Specifications.                                                         *)
(***************************************************************************)
Create(r, inputs) == CreateUpload(r, inputs) \/ CreateHandler(r) \/ CreateInsert(r)

Step(r, inputs) ==
  \/ ListRequest(r) \/ ListQuery(r)
  \/ Create(r, inputs)
  \/ DeleteRequest(r) \/ DeleteLookup(r) \/ DeleteRun(r) \/ DeleteUnlink(r)

\* requests interleave at every asynchronous hop
Next == Tick \/ \E r \in Slots : Step(r, SomeInputs)

Spec == Init /\ [][Next]_vars

\* no other request is in flight
Alone(r) == \A s \in Slots \ {r} : reqs[s].pc = "idle"

\* one request at a time
NextSeq == Tick \/ \E r \in Slots : Alone(r) /\ Step(r, SomeInputs)

SpecSeq == Init /\ [][NextSeq]_vars

\* creates alone, one at a time, over every kind of body
NextCreate == \E r \in Slots : Alone(r) /\ Create(r, AllInputs)

SpecCreate == Init /\ [][NextCreate]_vars

\* uploads under every original filename, and deletes, one request at a time;
\* no more uploads once MaxPosts files are on disk
NextFile ==
  \E r \in Slots :
    Alone(r) /\ \/ Cardinality(files) < MaxPosts /\ CreateUpload(r, FileInputs)
                \/ CreateHandler(r) \/ CreateInsert(r)
                \/ DeleteRequest(r) \/ DeleteLookup(r) \/ DeleteRun(r) \/ DeleteUnlink(r)

SpecFile == Init /\ [][NextFile]_vars

\* from the load of server.js on: the table is created or not, the port is
\* opened, and requests are served one at a time
NextBoot ==
  \/ CreateTable
  \/ Listen
  \/ Tick
  \/ \E r \in Slots : Alone(r) /\ Step(r, SomeInputs)

SpecBoot == InitBoot /\ [][NextBoot]_vars

(***************************************************************************)
(* Properties.                                                             *)
(***************************************************************************)
\* o is absent, empty, or all whitespace
Blank(o) == ~IsSome(o) \/ \A i \in 1..Len(Get(o)) : Get(o)[i] \in WS

\* s has no whitespace at either end
NoOuterSpace(s) == s = <<>> \/ (s[1] \notin WS /\ s[Len(s)] \notin WS)

\* t is s without the whitespace at its ends
IsTrimOf(t, s) ==
  /\ NoOuterSpace(t)
  /\ \E a \in 0..Len(s) :
       /\ a + Len(t) <= Len(s)
       /\ SubSeq(s, a + 1, a + Len(t)) = t
       /\ \A i \in 1..Len(s) : (i <= a \/ i > a + Len(t)) => s[i] \in WS

DeleteAnswered(status) == resp.kind = "delete" /\ resp.status = status
CreateAnswered(status) == resp.kind = "create" /\ resp.status = status
ListAnswered == resp.kind = "list" /\ resp.status = 200

\* C1: of the deletes of one id, at most one is answered 200 {success: true}
C1_AtMostOneSuccessfulDelete == \A id \in Ids : okDeletes[id] <= 1

\* C2: with one request at a time, a delete is answered 200 only for an id
\* that was in the table when it began and is in the table no more, and no
\* later list shows an id whose delete was answered 200; a delete of an id
\* that is in the table is answered 200 unless the store fails (500); a delete
\* of an id that is not in the table is answered 404 and leaves the table as
\* it was
C2_SequentialDelete ==
  /\ DeleteAnswered(200) =>
       resp.req.id \in IdsOf(resp.req.before) /\ resp.req.id \notin IdsOf(posts)
  /\ DeleteAnswered(404) =>
       resp.req.id \notin IdsOf(resp.req.before) /\ posts = resp.req.before
  /\ DeleteAnswered(500) => resp.error = "db" /\ posts = resp.req.before
  /\ resp.kind = "delete" =>
       resp.status = IF resp.error = "db" THEN 500
                     ELSE IF resp.req.id \in IdsOf(resp.req.before) THEN 200 ELSE 404
  /\ \A id \in Ids : okDeletes[id] > 0 =>
       id \notin IdsOf(posts) /\ (ListAnswered => id \notin IdsOf(Range(resp.rows)))

\* C2 witness: an id deleted with 200 is deleted again and answered 404
C2_Witness ==
  /\ DeleteAnswered(404)
  /\ okDeletes[resp.req.id] = 1
  /\ posts # {}

\* C3: a create whose name or message is absent, empty or all whitespace is
\* answered 400, queues no INSERT, and leaves the table as it was before the
\* request
C3_BlankFieldsRejected ==
  /\ (resp.kind = "create" /\ (Blank(resp.req.name) \/ Blank(resp.req.message))) =>
       resp.status = 400 /\ resp.error = "missing" /\ posts = resp.req.before
  /\ \A r \in Slots :
       (reqs[r].kind = "create" /\ (Blank(reqs[r].name) \/ Blank(reqs[r].message))) =>
         reqs[r].pc = "handler" /\ posts = reqs[r].before

\* C3 witness: a whitespace-only name has been answered 400 with rows in the table
C3_Witness ==
  /\ CreateAnswered(400)
  /\ IsSome(resp.req.name) /\ Len(Get(resp.req.name)) > 0 /\ Blank(resp.req.name)
  /\ ~Blank(resp.req.message)
  /\ posts # {}

\* C4: a create with non-blank name and message is answered 400 if and only if
\* the trimmed message is longer than 300
C4_TooLongIffTrimmedOver300 ==
  (resp.kind = "create" /\ ~Blank(resp.req.name) /\ ~Blank(resp.req.message)) =>
    (resp.status = 400 <=> Len(Trim(Get(resp.req.message))) > MaxMessageLen)

\* C5: every row has a name that is non-empty with no whitespace at its ends,
\* and a message that is non-empty, with no whitespace at its ends, of length
\* at most 300
C5_RowsWellFormed ==
  \A p \in posts :
    /\ p.name # <<>> /\ NoOuterSpace(p.name)
    /\ p.message # <<>> /\ NoOuterSpace(p.message)
    /\ Len(p.message) <= MaxMessageLen

\* C5 witness: a row whose message has exactly 300 characters
C5_Witness == \E p \in posts : Len(p.message) = MaxMessageLen

\* C6: a successful list carries exactly the rows of the table as it was when
\* the query ran, each once, with created_at never increasing along the list
\* (so none for an empty table); with one request at a time, of two rows with
\* different created_at the one created later (the larger id) comes first
C6_ListNewestFirst ==
  ListAnswered =>
    /\ Range(resp.rows) = resp.table
    /\ Len(resp.rows) = Cardinality(resp.table)
    /\ resp.table = posts
    /\ \A i, j \in 1..Len(resp.rows) :
         i < j => /\ resp.rows[i].created_at >= resp.rows[j].created_at
                  /\ resp.rows[i].created_at # resp.rows[j].created_at
                       => resp.rows[i].id > resp.rows[j].id

\* C6 witness: a list of two posts created at different times
C6_Witness ==
  /\ ListAnswered
  /\ Len(resp.rows) >= 2
  /\ resp.rows[1].created_at > resp.rows[2].created_at

UploadsPrefix == <<"/", "u", "p", "l", "o", "a", "d", "s", "/">>

\* C7: a create answered 201 has added exactly one row to the table as it was
\* before the request and changed no other; the row has a new id, the trimmed
\* name and message, image_path /uploads/<stored filename> when a file was
\* uploaded and null otherwise, and the created_at of the request; the body of
\* the 201 is that row
C7_CreateAddsTheRow ==
  CreateAnswered(201) =>
    LET q == resp.req
        row == Get(resp.post)
    IN /\ IsSome(resp.post)
       /\ posts = q.before \cup {row}
       /\ row.id \notin IdsOf(q.before)
       /\ IsTrimOf(row.name, Get(q.name))
       /\ IsTrimOf(row.message, Get(q.message))
       /\ row.image_path = IF IsSome(q.file) THEN Some(UploadsPrefix \o Get(q.filename))
                           ELSE None
       /\ row.created_at = q.createdAt
       /\ row.created_at <= now

\* C7 witness: a 201 for a body with padded fields and a file, the table not
\* empty before
C7_Witness ==
  /\ CreateAnswered(201)
  /\ IsSome(resp.req.file)
  /\ Get(resp.req.name) # Get(resp.post).name
  /\ resp.req.before # {}

\* C8: an id carried by a 201 is the id of a row that has been inserted, and a
\* list that began after the 201 shows that id unless the row has been deleted
\* by the time its query runs
C8_AnsweredCreateIsVisible ==
  /\ acked \subseteq IdsOf(posts) \cup Removed
  /\ ListAnswered =>
       \A id \in resp.req.seen : id \in IdsOf(Range(resp.rows)) \/ id \in resp.gone

\* C8 witness: a list that began after a 201 shows the post, while another
\* request is in flight
C8_Witness ==
  /\ ListAnswered
  /\ resp.req.seen # {}
  /\ resp.req.seen \subseteq IdsOf(Range(resp.rows))
  /\ \E r \in Slots : reqs[r].kind = "create" /\ reqs[r].pc = "ins_q"

\* C9: the step of a delete that removes the row sends 200; the completion of
\* its fs.unlink, whatever the outcome, finds the 200 already sent, sends
\* nothing, and leaves the table as it is, the row not in it
C9_UnlinkOutcomeIgnored ==
  [][\A r \in Slots :
       /\ (reqs[r].pc = "del_q" /\ reqs'[r].pc # "del_q"
             /\ reqs[r].id \in IdsOf(posts) /\ reqs[r].id \notin IdsOf(posts'))
            => (resp'.status = 200 /\ resp'.req.id = reqs[r].id /\ resp'.kind = "delete")
       /\ (reqs[r].pc = "unlink_q" /\ reqs'[r].pc # "unlink_q")
            => /\ reqs[r].status = 200
               /\ log'.err \in {"ok", "ENOENT", "EIO"} /\ log'.id = reqs[r].id
               /\ resp' = resp
               /\ posts' = posts
               /\ reqs[r].id \notin IdsOf(posts')]_vars

\* C9 witness: the removal of the file of a deleted post has failed; the
\* delete was answered 200 and the row is gone
C9_Witness ==
  /\ log.err = "EIO"
  /\ okDeletes[log.id] >= 1
  /\ log.id \notin IdsOf(posts)
  /\ DeleteAnswered(200) /\ resp.req.id = log.id

\* C10: once a delete of a post with an image has been answered 200, the image
\* file is not on disk (unless its removal has failed)
C10_FileAbsentOnceAnswered ==
  \A r \in Slots :
    (reqs[r].kind = "delete" /\ reqs[r].status = 200 /\ HasImage(reqs[r].imagePath)) =>
      FullPath(Get(reqs[r].imagePath)) \notin files

\* s is one path segment: not empty, no separator, not "." and not ".."
OneSegment(s) == s # <<>> /\ "/" \notin Range(s) /\ s # Dot /\ s # DotDot

\* s is `${time}_${base with the characters outside the allowlist removed, or
\* img}${ext}`, base and ext being the two parts of the last component of
\* orig, ext empty or from its last "." on
SanitizedFrom(s, orig) ==
  LET c == LastComponent(orig)
  IN \E t \in 0..MaxTime, i \in 0..Len(c) :
       LET base == SubSeq(c, 1, i)
           ext == SubSeq(c, i + 1, Len(c))
           kept == [k \in 1..Len(Strip(base, Allowed)) |-> Strip(base, Allowed)[k]]
       IN /\ ext = <<>> \/ (ext[1] = "." /\ \A k \in 2..Len(ext) : ext[k] # ".")
          /\ Range(kept) \subseteq Allowed
          /\ s = Decimal(t) \o <<"_">> \o (IF kept = <<>> THEN ImgName ELSE kept) \o ext

\* imagePath is /uploads/<one segment>
UnderUploads(imagePath) ==
  /\ Len(imagePath) > Len(UploadsPrefix)
  /\ SubSeq(imagePath, 1, Len(UploadsPrefix)) = UploadsPrefix
  /\ OneSegment(SubSeq(imagePath, Len(UploadsPrefix) + 1, Len(imagePath)))

\* path (segments below __dirname) is a file directly in the upload directory
InUploadDir(path) ==
  Len(path) = Len(uploadDir) + 1 /\ SubSeq(path, 1, Len(uploadDir)) = uploadDir
    /\ OneSegment(path[Len(path)])

\* C11: whatever the original filename, separators and ".." included, the
\* stored filename is one path segment made of the timestamp, "_", the base
\* name without the characters outside the allowlist (img when none is left)
\* and the extension; every image_path in the table is /uploads/<one segment>;
\* every file written and every path a delete hands to fs.unlink lies directly
\* in the upload directory
C11_StoredNamesStayInUploadDir ==
  /\ \A r \in Slots :
       /\ (reqs[r].kind = "create" /\ IsSome(reqs[r].file)) =>
            /\ IsSome(reqs[r].filename)
            /\ OneSegment(Get(reqs[r].filename))
            /\ SanitizedFrom(Get(reqs[r].filename), Get(reqs[r].file))
       /\ (reqs[r].kind = "delete" /\ reqs[r].pc \in {"del_q", "unlink_q"}
             /\ HasImage(reqs[r].imagePath)) =>
            InUploadDir(FullPath(Get(reqs[r].imagePath)))
  /\ \A p \in posts : IsSome(p.image_path) => UnderUploads(Get(p.image_path))
  /\ \A f \in files : InUploadDir(f)

\* C11 witness: the post uploaded as ../../e.p is being deleted, the removal
\* of its file 0_e.p pending
C11_Witness ==
  \E r \in Slots :
    /\ reqs[r].pc = "unlink_q"
    /\ reqs[r].imagePath = Some(UploadsPrefix \o <<"0", "_", "e", ".", "p">>)
    /\ FullPath(Get(reqs[r].imagePath)) \in files

\* C12: no two posts in the table have the same non-null image_path (any two
\* uploads having received different stored filenames)
C12_ImagePathsDistinct ==
  \A p, q \in posts :
    (p.id # q.id /\ IsSome(p.image_path)) => p.image_path # q.image_path

\* C13: a step that adds a row adds exactly one, answers 201 with its id, and
\* the id is larger than every id in the table and every id a 201 has carried
\* and was never deleted; a row leaves the table only by a delete answered
\* 200; an id whose delete was answered 200 is never in the table again; no
\* two rows share an id
C13_IdsNeverReused ==
  [][/\ Cardinality(IdsOf(posts')) = Cardinality(posts')
     /\ \A id \in Ids :
          /\ (id \notin IdsOf(posts) /\ id \in IdsOf(posts')) =>
               /\ \A j \in acked \cup IdsOf(posts) : j < id
               /\ okDeletes[id] = 0
               /\ Cardinality(posts') = Cardinality(posts) + 1
               /\ resp'.kind = "create" /\ resp'.status = 201
               /\ Get(resp'.post).id = id
          /\ (id \in IdsOf(posts) /\ id \notin IdsOf(posts')) =>
               /\ okDeletes'[id] = okDeletes[id] + 1
               /\ resp'.kind = "delete" /\ resp'.status = 200 /\ resp'.req.id = id
          /\ okDeletes[id] > 0 => id \notin IdsOf(posts')]_vars

\* C13 witness: post 1 has been deleted and a create that began afterwards
\* has been given id 2
C13_Witness ==
  /\ CreateAnswered(201)
  /\ Get(resp.post).id = 2
  /\ resp.req.before = {}
  /\ okDeletes[1] > 0
  /\ IdsOf(posts) = {2}

\* C14: with one request at a time, when a create is answered 201 and the
\* next request is a delete of the id it returned, answered 200, the table is
\* again the table from before the create, and a list gives what it gave then
C14_CreateThenDeleteRestores ==
  [][(/\ resp.kind = "create" /\ resp.status = 201
      /\ resp'.kind = "delete" /\ resp'.status = 200
      /\ resp'.req.id = Get(resp.post).id)
       => /\ posts' = resp.req.before
          /\ SelectAll(posts') = SelectAll(resp.req.before)]_vars

\* C14 witness: post 2, created into a table holding post 1, has been deleted
\* by the request that followed its 201
C14_Witness ==
  /\ DeleteAnswered(200)
  /\ resp.req.id = 2 /\ 2 \in resp.req.seen
  /\ IdsOf(resp.req.before) = {1, 2}
  /\ IdsOf(posts) = {1}
  /\ okDeletes = [i \in Ids |-> IF i = 2 THEN 1 ELSE 0]

\* C15: when the creation of table posts has failed, no request is accepted
\* and none is answered
C15_NoServiceWithoutTable ==
  table = "failed" => /\ \A r \in Slots : reqs[r].pc = "idle"
                      /\ resp = NoResp

\* C16: fs.unlink is started only by the step in which the DELETE has removed
\* the row and 200 is sent, and a file leaves the disk only through such an
\* fs.unlink; a delete answered 500 (the lookup or the DELETE failed) or 404
\* (no such id) ends there, the table and the files as they were and no
\* fs.unlink started
C16_UnlinkOnlyAfterRowRemoved ==
  [][/\ \A r \in Slots :
          /\ (reqs[r].pc # "unlink_q" /\ reqs'[r].pc = "unlink_q") =>
               /\ reqs[r].pc = "del_q"
               /\ reqs[r].id \notin IdsOf(posts')
               /\ resp'.kind = "delete" /\ resp'.status = 200
               /\ resp'.req.id = reqs[r].id
          /\ (reqs[r].pc = "get_q" /\ reqs'[r].pc = "del_q") =>
               /\ reqs[r].id \in IdsOf(posts)
               /\ UNCHANGED <<posts, files, resp>>
          /\ (reqs[r].pc = "get_q" /\ reqs'[r].pc \notin {"get_q", "del_q"}) =>
               /\ resp'.kind = "delete" /\ resp'.req = reqs[r]
               /\ resp'.status \in {500, 404}
               /\ reqs[r].id \in IdsOf(posts) => resp'.status = 500
               /\ UNCHANGED <<posts, files>>
               /\ reqs'[r] = Idle
          /\ (reqs[r].pc = "del_q" /\ reqs'[r].pc # "del_q") =>
               /\ resp'.kind = "delete" /\ resp'.req = reqs[r]
               /\ resp'.status \in {500, 200}
               /\ resp'.status = 500 => UNCHANGED <<posts, files>> /\ reqs'[r] = Idle
               /\ resp'.status = 200 => reqs[r].id \notin IdsOf(posts') /\ files' = files
     /\ files' # files /\ files' \subseteq files =>
          \E r \in Slots :
            /\ reqs[r].pc = "unlink_q" /\ reqs[r].status = 200
            /\ files' = files \ {FullPath(Get(reqs[r].imagePath))}
            /\ reqs[r].id \notin IdsOf(posts)]_vars

\* C16 witness: the DELETE of a post with an image has failed: 500 is sent,
\* the row is in the table and the file on disk, no fs.unlink pending
C16_Witness ==
  /\ DeleteAnswered(500)
  /\ resp.req.pc = "del_q"
  /\ HasImage(resp.req.imagePath)
  /\ FullPath(Get(resp.req.imagePath)) \in files
  /\ \E p \in posts : p.id = resp.req.id /\ p.image_path = resp.req.imagePath
  /\ \A r \in Slots : reqs[r].pc = "idle"

\* C17: after a create that carried a file has been answered 400, the file
\* written for it is not in the upload directory
C17_RejectedUploadLeavesNoFile ==
  (CreateAnswered(400) /\ IsSome(resp.req.filename)) =>
    PathJoin(uploadDir, Get(resp.req.filename)) \notin files

\* C18: of two posts in the table, the one with the larger id does not have
\* the smaller created_at
C18_IdOrderIsTimeOrder ==
  \A p, q \in posts : p.id > q.id => p.created_at >= q.created_at

\* the step answers request q with one of the statuses in `statuses`
Answers(q, statuses) ==
  resp'.req = q /\ resp'.kind = q.kind /\ resp'.status \in statuses

\* C19: every request is answered exactly once.  A step that takes a request
\* on, or only queues its next statement, sends nothing; the step in which the
\* SELECT of a list, the validation or the INSERT of a create, or the lookup
\* or the DELETE of a delete ends the request answers it (200 or 500; 400; 201
\* or 500; 404 or 500; 200 or 500); a request is still in flight after its
\* answer only as a delete answered 200 whose fs.unlink is pending, and the
\* completion of that fs.unlink sends nothing
C19_AnsweredExactlyOnce ==
  [][\A r \in Slots :
       LET q == reqs[r]
           pc == reqs[r].pc
           pc2 == reqs'[r].pc
       IN /\ (pc = "idle" /\ pc2 # "idle") =>
               resp' = resp /\ pc2 \in {"all_q", "handler", "get_q"} /\ reqs'[r].status = 0
          /\ (pc = "all_q" /\ pc2 # pc) => pc2 = "idle" /\ Answers(q, {200, 500})
          /\ (pc = "handler" /\ pc2 # pc) =>
               \/ pc2 = "idle" /\ Answers(q, {400})
               \/ pc2 = "ins_q" /\ resp' = resp /\ reqs'[r].status = 0
          /\ (pc = "ins_q" /\ pc2 # pc) => pc2 = "idle" /\ Answers(q, {201, 500})
          /\ (pc = "get_q" /\ pc2 # pc) =>
               \/ pc2 = "idle" /\ Answers(q, {404, 500})
               \/ pc2 = "del_q" /\ resp' = resp /\ reqs'[r].status = 0
          /\ (pc = "del_q" /\ pc2 # pc) =>
               \/ pc2 = "idle" /\ Answers(q, {200, 500})
               \/ pc2 = "unlink_q" /\ Answers(q, {200}) /\ reqs'[r].status = 200
          /\ (pc = "unlink_q" /\ pc2 # pc) =>
               pc2 = "idle" /\ resp' = resp /\ q.status = 200
          /\ pc \in {"idle", "all_q", "handler", "ins_q", "get_q", "del_q", "unlink_q"}
          /\ (pc2 = pc /\ reqs'[r] # q) => pc = "idle"
          /\ resp' # resp => \E s \in Slots : reqs'[s] # reqs[s] /\ resp'.req = reqs[s]]_vars

\* C19 witness: a delete of a post with an image was answered 200, its
\* fs.unlink has removed the file since, and that 200 is still the last
\* response sent
C19_Witness ==
  /\ DeleteAnswered(200)
  /\ log.err = "ok" /\ log.id = resp.req.id
  /\ HasImage(resp.req.imagePath)
  /\ FullPath(Get(resp.req.imagePath)) \notin files
  /\ \A r \in Slots : reqs[r].pc = "idle"

====
